---- MODULE Spec2Model ----
(***************************************************************************)
(* A model of the server actions of the ALX Polly polling application:     *)
(* the authentication actions (login, register) with their in-memory rate  *)
(* limiter, and the poll actions (createPoll, updatePoll, deletePoll,      *)
(* submitVote, getUserPolls, getPollById) against the polls and votes      *)
(* tables, the poll page, the percentages of the vote page, and the        *)
(* invocations of the actions that are in flight at once, and the voting   *)
(* component of the poll page with its handleVote runs.                    *)
(*                                                                         *)
(* Text is a sequence of one-character strings; a password is a sequence   *)
(* of character codes; time is Date.now() in milliseconds.  The identity   *)
(* provider and the database are external: what they answer (an error, a   *)
(* user, no user) is an input of each action.                              *)
(***************************************************************************)
EXTENDS Integers, Sequences, FiniteSets, Bags, TLC

VARIABLES
    now,               \* Date.now(), in milliseconds
    rateLimitStore,    \* auth-actions: key -> [count, last]
    authLog,           \* history: key -> the calls on it in its open window
    signInLog,         \* history: the signInWithPassword calls of one window
    calls,             \* the number of login and register calls made so far
    pollRateLimitMap,  \* poll-actions: user id -> timestamps of the polls created
    passLog,           \* history: user id -> times createPoll passed its limiter
    polls,             \* the rows of table polls
    votes,             \* the rows of table votes, in insertion order
    nextId,            \* the id the database gives the next poll row
    input,             \* the input of the validation under check
    inflight,          \* the bag of invocations in flight: where each stands, its locals
    voteState,         \* PollVoteClient: the state of the component
    voteView,          \* PollVoteClient: the state as of the last render
    voteRuns,          \* PollVoteClient: the bag of handleVote runs in flight
    voteCalls,         \* history: the handleVote runs, each with its vote_on_option call
    ret                \* the last action called, its arguments and what it returned

vars == <<now, rateLimitStore, authLog, signInLog, calls, pollRateLimitMap, passLog, polls, votes,
          nextId, input, inflight, voteState, voteView, voteRuns, voteCalls, ret>>

authVars == <<rateLimitStore, authLog, signInLog, calls>>
pollVars == <<pollRateLimitMap, passLog, polls, votes, nextId>>
clientVars == <<voteState, voteView, voteRuns, voteCalls>>

----------------------------------------------------------------------------
(* Bounds of the model. *)

MaxWindows == 1     \* the clock runs over MaxWindows + 1 rate-limit windows
MaxIPs == 2         \* distinct strings Math.random() gives as ip
MaxCalls == 7       \* checkRateLimit calls in one behaviour
MaxStrLen == 2      \* length of a question under validation
MaxOptions == 3     \* number of option fields of a form
MaxPwLen == 8       \* length of a password under validation
MaxPolls == 2       \* poll rows ever inserted
MaxPasses == 4      \* createPoll calls that pass the limiter
MaxDbErrors == 1    \* createPoll calls that pass the limiter and fail to insert
MaxVotePolls == 1   \* poll rows ever inserted where votes are cast
MaxVotes == 1       \* vote rows ever inserted
MaxVoteCount == 23  \* votes counted for one option of a poll
MaxInflight == 2    \* invocations in flight at once
MaxInflightCalls == 3   \* login and register calls where several are in flight

----------------------------------------------------------------------------
(* Values. *)

null == "null"              \* JavaScript null, as a result field
NullText == <<"null">>      \* JavaScript null where text is expected
NoRet == [op |-> "none", error |-> null]
Undefined == "undefined"    \* JavaScript undefined

\* PollVoteClient: useState(null), useState(false), useState(false),
\* useState(null)
FirstRender ==
    [selectedOption |-> null, hasVoted |-> FALSE, isSubmitting |-> FALSE,
     error |-> null]

----------------------------------------------------------------------------
(* Poll input validation: createPoll and updatePoll, before anything else, *)
(* read the question and the options from the form and check them.         *)

Chars == {" ", "a"}
WhiteSpace == {" "}

\* Boolean(v) of a string or null: false for null and for the empty string.
Boolean(v) == v # NullText /\ v # <<>>

\* formData.get("question")
FormQuestion(formData) == formData.question

\* formData.getAll("options").filter(Boolean)
FormOptions(formData) == SelectSeq(formData.options, Boolean)

\* A mutation of PollInputInvalid: one option is enough.
PollInputInvalidOneOption(question, options) ==
    ~Boolean(question) \/ Len(options) < 1

\* if (!question || options.length < 2)
PollInputInvalid(question, options) ==
    ~Boolean(question) \/ Len(options) < 2

ErrPollInput == "Please provide a question and at least two options."

\* What the validation of createPoll and updatePoll answers for a form.
PollInputError(formData) ==
    IF PollInputInvalid(FormQuestion(formData), FormOptions(formData))
    THEN ErrPollInput
    ELSE null

----------------------------------------------------------------------------
(* Password policy of register.  A character is its code.                  *)

minLength == 8

UpperCodes == 65..90       \* A-Z
LowerCodes == 97..122      \* a-z
DigitCodes == 48..57       \* 0-9

\* /[class]/.test(s), or /[^class]/.test(s) when negated: some character of s
\* is in the class (is not in it, when negated).
RECURSIVE RegexTest(_, _, _)
RegexTest(class, negated, s) ==
    IF s = <<>> THEN FALSE
    ELSE ((Head(s) \in class) # negated) \/ RegexTest(class, negated, Tail(s))

hasUpper(password) == RegexTest(UpperCodes, FALSE, password)
hasLower(password) == RegexTest(LowerCodes, FALSE, password)
hasNumber(password) == RegexTest(DigitCodes, FALSE, password)
hasSpecial(password) ==
    RegexTest(UpperCodes \cup LowerCodes \cup DigitCodes, TRUE, password)

\* A mutation of PasswordRejected: the special character is not asked for.
PasswordRejectedNoSpecial(password) ==
    \/ Len(password) < minLength
    \/ ~hasUpper(password)
    \/ ~hasLower(password)
    \/ ~hasNumber(password)

\* A mutation of PasswordRejected: the length check is off by one.
PasswordRejectedShort(password) ==
    \/ Len(password) < minLength - 1
    \/ ~hasUpper(password)
    \/ ~hasLower(password)
    \/ ~hasNumber(password)
    \/ ~hasSpecial(password)

PasswordRejected(password) ==
    \/ Len(password) < minLength
    \/ ~hasUpper(password)
    \/ ~hasLower(password)
    \/ ~hasNumber(password)
    \/ ~hasSpecial(password)

ErrPassword ==
    "Password must be at least 8 characters and include upper, lower, number, and special character."

----------------------------------------------------------------------------
(* The clock.  It shows the start, and the instants one window and one     *)
(* window and a millisecond after each instant it shows, and only moves    *)
(* forward.                                                                *)

RATE_LIMIT_WINDOW == 60 * 1000
RATE_LIMIT_MAX == 5

Times == {0} \cup {w * RATE_LIMIT_WINDOW + j : w \in 1..MaxWindows, j \in {0, 1}}

----------------------------------------------------------------------------
(* auth-actions: the rate limiter, login and register.                     *)


ErrRateLimit == "Too many requests. Please wait and try again."
ErrProvider == "identity provider error"
ErrVerifyEmail ==
    "Registration successful. Please verify your email before logging in."

\* const key = `${action}:${ip}`
RateLimitKey(ip, action) == <<action, ip>>

\* rateLimitStore[key] || { count: 0, last: now }
RateLimitEntry(store, key, t) ==
    IF key \in DOMAIN store THEN store[key] ELSE [count |-> 0, last |-> t]

\* A mutation of WindowElapsed: the window is over at 60 s exactly.
WindowElapsedAtWindow(t, last) == t - last >= RATE_LIMIT_WINDOW

\* now - entry.last > RATE_LIMIT_WINDOW
WindowElapsed(t, last) == t - last > RATE_LIMIT_WINDOW

\* A mutation of RateLimitCount: a call over the maximum is not counted.
RateLimitCountAllowedOnly(entry, t) ==
    IF WindowElapsed(t, entry.last)
    THEN [count |-> 1, last |-> t]
    ELSE IF entry.count > RATE_LIMIT_MAX
    THEN entry
    ELSE [count |-> entry.count + 1, last |-> entry.last]

\* The entry after one more call at time t.
RateLimitCount(entry, t) ==
    IF WindowElapsed(t, entry.last)
    THEN [count |-> 1, last |-> t]
    ELSE [count |-> entry.count + 1, last |-> entry.last]

\* A mutation of RateLimitExceeded: the call that reaches the maximum is denied.
RateLimitExceededAtMax(count) == count >= RATE_LIMIT_MAX

\* entry.count > RATE_LIMIT_MAX
RateLimitExceeded(count) == count > RATE_LIMIT_MAX

\* checkRateLimit(ip, action) at time t: the store it leaves.
RateLimitStoreAfter(store, ip, action, t) ==
    LET key == RateLimitKey(ip, action)
        entry == RateLimitCount(RateLimitEntry(store, key, t), t)
    IN  [k \in DOMAIN store \cup {key} |-> IF k = key THEN entry ELSE store[k]]

\* checkRateLimit(ip, action) at time t: the string it returns, or null.
checkRateLimit(store, ip, action, t) ==
    LET key == RateLimitKey(ip, action)
    IN  IF RateLimitExceeded(RateLimitStoreAfter(store, ip, action, t)[key].count)
        THEN ErrRateLimit
        ELSE null

\* History: the calls made on key since its window opened (TRUE for a call
\* that was allowed), and the number of calls of the window before it. A call
\* belongs to the open window when it comes at most 60 s after the call that
\* opened it.
AuthLogAfter(ip, action, allowed) ==
    LET key == RateLimitKey(ip, action)
        new == IF key \notin DOMAIN authLog
               THEN [start |-> now, calls |-> <<allowed>>, prev |-> 0]
               ELSE IF now - authLog[key].start <= 60 * 1000
               THEN [authLog[key] EXCEPT !.calls = Append(@, allowed)]
               ELSE [start |-> now, calls |-> <<allowed>>,
                     prev |-> Len(authLog[key].calls)]
    IN  [k \in DOMAIN authLog \cup {key} |-> IF k = key THEN new ELSE authLog[k]]

\* History: the number of signInWithPassword calls made in the 60 s after the
\* first of them, with one more made now.
SignInLogAfter ==
    IF signInLog.n > 0 /\ now - signInLog.start <= 60 * 1000
    THEN [start |-> signInLog.start, n |-> signInLog.n + 1]
    ELSE [start |-> now, n |-> 1]

\* login(data), where Math.random() gives the string ip and the identity
\* provider answers signIn ("error" or "ok") if it is asked.
login(ip, signIn) ==
    LET rateError == checkRateLimit(rateLimitStore, ip, "login", now)
    IN  /\ calls < MaxCalls
        /\ calls' = calls + 1
        /\ rateLimitStore' = RateLimitStoreAfter(rateLimitStore, ip, "login", now)
        /\ authLog' = AuthLogAfter(ip, "login", rateError = null)
        /\ IF rateError # null
           THEN /\ ret' = [op |-> "login", ip |-> ip, error |-> rateError,
                           provider |-> FALSE]
                /\ UNCHANGED signInLog
           ELSE /\ ret' = [op |-> "login", ip |-> ip,
                           error |-> IF signIn = "error" THEN ErrProvider ELSE null,
                           provider |-> TRUE]
                /\ signInLog' = SignInLogAfter
        /\ UNCHANGED <<now, pollVars, input, inflight, clientVars>>

\* A mutation of VerificationRequired: the test is the wrong way round.
VerificationRequiredInverted(signUp) == signUp = "confirmed"

\* !signUpData?.user?.email_confirmed_at, where signUp is what the identity
\* provider answered without an error: a user "unconfirmed" or "confirmed".
VerificationRequired(signUp) == signUp # "confirmed"

\* What register returns once the identity provider has answered signUp.
SignUpResult(ip, password, signUp) ==
    [op |-> "register", ip |-> ip, password |-> password, signUp |-> signUp,
     error |-> IF signUp = "error" THEN ErrProvider
               ELSE IF VerificationRequired(signUp) THEN ErrVerifyEmail
               ELSE null,
     provider |-> TRUE,
     emailVerificationRequired |->
         (signUp # "error" /\ VerificationRequired(signUp))]

\* A mutation of register: the password is checked before the rate limit.
registerValidatesFirst(ip, password, signUp) ==
    LET rateError == checkRateLimit(rateLimitStore, ip, "register", now)
    IN  /\ calls < MaxCalls
        /\ calls' = calls + 1
        /\ IF PasswordRejected(password)
           THEN /\ ret' = [op |-> "register", ip |-> ip, password |-> password,
                           signUp |-> "none",
                           error |-> ErrPassword, provider |-> FALSE,
                           emailVerificationRequired |-> FALSE]
                /\ UNCHANGED <<rateLimitStore, authLog>>
           ELSE /\ rateLimitStore' =
                      RateLimitStoreAfter(rateLimitStore, ip, "register", now)
                /\ authLog' = AuthLogAfter(ip, "register", rateError = null)
                /\ IF rateError # null
                   THEN ret' = [op |-> "register", ip |-> ip,
                                password |-> password, signUp |-> "none",
                                error |-> rateError, provider |-> FALSE,
                                emailVerificationRequired |-> FALSE]
                   ELSE ret' = SignUpResult(ip, password, signUp)
        /\ UNCHANGED <<now, signInLog, pollVars, input, inflight, clientVars>>

\* register(data), where Math.random() gives the string ip and the identity
\* provider answers signUp ("error", or a user "unconfirmed" or "confirmed")
\* if it is asked.
register(ip, password, signUp) ==
    LET rateError == checkRateLimit(rateLimitStore, ip, "register", now)
    IN  /\ calls < MaxCalls
        /\ calls' = calls + 1
        /\ rateLimitStore' = RateLimitStoreAfter(rateLimitStore, ip, "register", now)
        /\ authLog' = AuthLogAfter(ip, "register", rateError = null)
        /\ IF rateError # null
           THEN ret' = [op |-> "register", ip |-> ip, password |-> password,
                        signUp |-> "none",
                        error |-> rateError, provider |-> FALSE,
                        emailVerificationRequired |-> FALSE]
           ELSE IF PasswordRejected(password)
           THEN ret' = [op |-> "register", ip |-> ip, password |-> password,
                        signUp |-> "none",
                        error |-> ErrPassword, provider |-> FALSE,
                        emailVerificationRequired |-> FALSE]
           ELSE ret' = SignUpResult(ip, password, signUp)
        /\ UNCHANGED <<now, signInLog, pollVars, input, inflight, clientVars>>

\* Time passes between two calls.
Tick ==
    /\ \E t \in Times : t > now /\ now' = t
    /\ ret' = NoRet
    /\ UNCHANGED <<authVars, pollVars, input, inflight, clientVars>>

\* "Abc12345" (no special character) and "Abc@1234"
WeakPassword == <<65, 98, 99, 49, 50, 51, 52, 53>>
StrongPassword == <<65, 98, 99, 64, 49, 50, 51, 52>>
AuthPasswords == {WeakPassword, StrongPassword}

InitCommon ==
    /\ now = 0
    /\ rateLimitStore = <<>>
    /\ authLog = <<>>
    /\ signInLog = [start |-> 0, n |-> 0]
    /\ calls = 0
    /\ pollRateLimitMap = <<>>
    /\ passLog = <<>>
    /\ polls = {}
    /\ votes = <<>>
    /\ nextId = 1
    /\ inflight = EmptyBag
    /\ voteState = FirstRender
    /\ voteView = FirstRender
    /\ voteRuns = EmptyBag
    /\ voteCalls = <<>>
    /\ ret = NoRet

\* The strings Math.random() can give next: one it gave before, or a new one
\* (new ones are taken in order, since one new string is like another).
UsedIPs == {key[2] : key \in DOMAIN rateLimitStore}
NextIPs == {ip \in 1..MaxIPs : ip <= Cardinality(UsedIPs) + 1}

InitAuth == InitCommon /\ input = <<>>

NextLogin ==
    \/ \E ip \in NextIPs, signIn \in {"error", "ok"} : login(ip, signIn)
    \/ Tick

SpecLogin == InitAuth /\ [][NextLogin]_vars

NextRegister ==
    \/ \E ip \in NextIPs, password \in AuthPasswords,
          signUp \in {"error", "unconfirmed", "confirmed"} :
            register(ip, password, signUp)
    \/ Tick

SpecRegister == InitAuth /\ [][NextRegister]_vars

----------------------------------------------------------------------------
(* poll-actions: the polls and votes tables and the actions on them.  What *)
(* supabase.auth.getUser() answers is the input auth of an action: a user  *)
(* id, NoUser (no session) or UserError; whether the database refuses the  *)
(* statement of the action is its input dbError.                           *)

Users == {"u1", "u2"}
NoUser == "no user"
UserError == "user error"
Sessions == Users \cup {NoUser, UserError}

ErrUser == "auth error"
ErrDb == "database error"
ErrLoginCreate == "You must be logged in to create a poll."
ErrLoginUpdate == "You must be logged in to update a poll."
ErrNotAuthenticated == "Not authenticated"
ErrPollRate == "Rate limit exceeded. You can create up to 3 polls per minute."

POLL_RATE_LIMIT_WINDOW_MS == 60 * 1000
POLL_RATE_LIMIT_MAX == 3

\* The row the database inserts into polls.
PollRow(userId, question, options) ==
    [id |-> nextId, user_id |-> userId, question |-> question,
     options |-> options, created_at |-> now]

\* What createPoll returns, with (history) whether it called revalidatePath
\* and whether it sent a statement to the database.
CreateResult(auth, formData, error, sent) ==
    [op |-> "createPoll", actor |-> auth, id |-> 0, form |-> formData,
     error |-> error, revalidated |-> (error = null), sent |-> sent]

\* createPoll(formData) of poll-actions.ts.
createPoll(auth, formData, dbError) ==
    LET question == FormQuestion(formData)
        options == FormOptions(formData)
    IN  /\ IF PollInputInvalid(question, options)
           THEN /\ ret' = CreateResult(auth, formData, ErrPollInput, FALSE)
                /\ UNCHANGED <<polls, nextId>>
           ELSE IF auth = UserError
           THEN /\ ret' = CreateResult(auth, formData, ErrUser, FALSE)
                /\ UNCHANGED <<polls, nextId>>
           ELSE IF auth = NoUser
           THEN /\ ret' = CreateResult(auth, formData, ErrLoginCreate, FALSE)
                /\ UNCHANGED <<polls, nextId>>
           ELSE IF dbError
           THEN /\ ret' = CreateResult(auth, formData, ErrDb, TRUE)
                /\ UNCHANGED <<polls, nextId>>
           ELSE /\ polls' = polls \cup {PollRow(auth, question, options)}
                /\ nextId' = nextId + 1
                /\ ret' = CreateResult(auth, formData, null, TRUE)
        /\ UNCHANGED <<now, authVars, pollRateLimitMap, passLog, votes, input, inflight, clientVars>>

\* pollRateLimitMap.get(userKey) || []
PollTimestamps(map, userKey) ==
    IF userKey \in DOMAIN map THEN map[userKey] ELSE <<>>

\* now - ts < POLL_RATE_LIMIT_WINDOW_MS
InPollWindow(t, ts) == t - ts < POLL_RATE_LIMIT_WINDOW_MS

\* The timestamps of userKey that are still inside the window at time t.
RecentTimestamps(map, userKey, t) ==
    LET Recent(ts) == InPollWindow(t, ts)
    IN  SelectSeq(PollTimestamps(map, userKey), Recent)

\* A mutation of PollRateExceeded: one poll too many passes.
PollRateExceededOffByOne(timestamps) == Len(timestamps) > POLL_RATE_LIMIT_MAX

\* timestamps.length >= POLL_RATE_LIMIT_MAX
PollRateExceeded(timestamps) == Len(timestamps) >= POLL_RATE_LIMIT_MAX

\* pollRateLimitMap.set(userKey, timestamps), timestamps with t pushed.
PollRateLimitMapAfter(map, userKey, t) ==
    LET timestamps == Append(RecentTimestamps(map, userKey, t), t)
    IN  [u \in DOMAIN map \cup {userKey} |->
            IF u = userKey THEN timestamps ELSE map[u]]

\* History: the times at which createPoll calls of userKey passed the limiter.
PassLogAfter(userKey) ==
    LET old == IF userKey \in DOMAIN passLog THEN passLog[userKey] ELSE <<>>
    IN  [u \in DOMAIN passLog \cup {userKey} |->
            IF u = userKey THEN Append(old, now) ELSE passLog[u]]

\* What the rate-limited createPoll returns.
CreateLimitedResult(auth, formData, error, sent) ==
    [op |-> "createPollRateLimited", actor |-> auth, id |-> 0, form |-> formData,
     error |-> error, revalidated |-> (error = null), sent |-> sent]

\* A mutation of createPollRateLimited: the user is looked for before the
\* form is validated.
createPollRateLimitedUserFirst(auth, formData, dbError) ==
    LET question == FormQuestion(formData)
        options == FormOptions(formData)
    IN  /\ IF auth = UserError
           THEN /\ ret' = CreateLimitedResult(auth, formData, ErrUser, FALSE)
                /\ UNCHANGED <<pollRateLimitMap, passLog, polls, nextId>>
           ELSE IF auth = NoUser
           THEN /\ ret' = CreateLimitedResult(auth, formData, ErrLoginCreate, FALSE)
                /\ UNCHANGED <<pollRateLimitMap, passLog, polls, nextId>>
           ELSE IF PollInputInvalid(question, options)
           THEN /\ ret' = CreateLimitedResult(auth, formData, ErrPollInput, FALSE)
                /\ UNCHANGED <<pollRateLimitMap, passLog, polls, nextId>>
           ELSE IF PollRateExceeded(RecentTimestamps(pollRateLimitMap, auth, now))
           THEN /\ ret' = CreateLimitedResult(auth, formData, ErrPollRate, FALSE)
                /\ UNCHANGED <<pollRateLimitMap, passLog, polls, nextId>>
           ELSE /\ pollRateLimitMap' = PollRateLimitMapAfter(pollRateLimitMap, auth, now)
                /\ passLog' = PassLogAfter(auth)
                /\ IF dbError
                   THEN /\ ret' = CreateLimitedResult(auth, formData, ErrDb, TRUE)
                        /\ UNCHANGED <<polls, nextId>>
                   ELSE /\ polls' = polls \cup {PollRow(auth, question, options)}
                        /\ nextId' = nextId + 1
                        /\ ret' = CreateLimitedResult(auth, formData, null, TRUE)
        /\ UNCHANGED <<now, authVars, votes, input, inflight, clientVars>>

\* createPoll(formData) of the poll-actions module with the per-user limiter.
createPollRateLimited(auth, formData, dbError) ==
    LET question == FormQuestion(formData)
        options == FormOptions(formData)
    IN  /\ IF PollInputInvalid(question, options)
           THEN /\ ret' = CreateLimitedResult(auth, formData, ErrPollInput, FALSE)
                /\ UNCHANGED <<pollRateLimitMap, passLog, polls, nextId>>
           ELSE IF auth = UserError
           THEN /\ ret' = CreateLimitedResult(auth, formData, ErrUser, FALSE)
                /\ UNCHANGED <<pollRateLimitMap, passLog, polls, nextId>>
           ELSE IF auth = NoUser
           THEN /\ ret' = CreateLimitedResult(auth, formData, ErrLoginCreate, FALSE)
                /\ UNCHANGED <<pollRateLimitMap, passLog, polls, nextId>>
           ELSE IF PollRateExceeded(RecentTimestamps(pollRateLimitMap, auth, now))
           THEN /\ ret' = CreateLimitedResult(auth, formData, ErrPollRate, FALSE)
                /\ UNCHANGED <<pollRateLimitMap, passLog, polls, nextId>>
           ELSE /\ pollRateLimitMap' = PollRateLimitMapAfter(pollRateLimitMap, auth, now)
                /\ passLog' = PassLogAfter(auth)
                /\ IF dbError
                   THEN /\ ret' = CreateLimitedResult(auth, formData, ErrDb, TRUE)
                        /\ UNCHANGED <<polls, nextId>>
                   ELSE /\ polls' = polls \cup {PollRow(auth, question, options)}
                        /\ nextId' = nextId + 1
                        /\ ret' = CreateLimitedResult(auth, formData, null, TRUE)
        /\ UNCHANGED <<now, authVars, votes, input, inflight, clientVars>>

\* A mutation of OwnedBy: the owner is not compared.
OwnedByAnyone(row, id, userId) == row.id = id

\* .eq("id", id).eq("user_id", user.id)
OwnedBy(row, id, userId) == row.id = id /\ row.user_id = userId

\* What deletePoll returns, with (history) whether it called revalidatePath
\* and whether it sent a statement to the database.
DeleteResult(auth, id, error, sent) ==
    [op |-> "deletePoll", actor |-> auth, id |-> id, error |-> error,
     revalidated |-> (error = null), sent |-> sent]

\* A mutation of deletePollReturn: a missing user is not looked for.
deletePollReturnNoUserCheck(table, auth, id, dbError) ==
    IF auth = UserError THEN DeleteResult(auth, id, ErrUser, FALSE)
    ELSE IF dbError THEN DeleteResult(auth, id, ErrDb, TRUE)
    ELSE DeleteResult(auth, id, null, TRUE)

\* What deletePoll(id) returns when the table polls is table.
deletePollReturn(table, auth, id, dbError) ==
    IF auth = UserError THEN DeleteResult(auth, id, ErrUser, FALSE)
    ELSE IF auth = NoUser THEN DeleteResult(auth, id, ErrNotAuthenticated, FALSE)
    ELSE IF dbError THEN DeleteResult(auth, id, ErrDb, TRUE)
    ELSE DeleteResult(auth, id, null, TRUE)

\* .delete().eq("id", id).eq("user_id", user.id)
deletePollRows(table, auth, id) == {row \in table : ~OwnedBy(row, id, auth)}

\* deletePoll(id)
deletePoll(auth, id, dbError) ==
    /\ ret' = deletePollReturn(polls, auth, id, dbError)
    /\ polls' = IF ret'.sent /\ ~dbError
                THEN deletePollRows(polls, auth, id)
                ELSE polls
    /\ UNCHANGED <<now, authVars, pollRateLimitMap, passLog, votes, nextId, input, inflight, clientVars>>

\* What updatePoll returns, with (history) whether it sent a statement to the
\* database.
UpdateResult(auth, pollId, formData, error, sent) ==
    [op |-> "updatePoll", actor |-> auth, id |-> pollId, form |-> formData,
     error |-> error, revalidated |-> FALSE, sent |-> sent]

\* What updatePoll(pollId, formData) returns when the table polls is table.
updatePollReturn(table, auth, pollId, formData, dbError) ==
    IF PollInputInvalid(FormQuestion(formData), FormOptions(formData))
    THEN UpdateResult(auth, pollId, formData, ErrPollInput, FALSE)
    ELSE IF auth = UserError
    THEN UpdateResult(auth, pollId, formData, ErrUser, FALSE)
    ELSE IF auth = NoUser
    THEN UpdateResult(auth, pollId, formData, ErrLoginUpdate, FALSE)
    ELSE IF dbError
    THEN UpdateResult(auth, pollId, formData, ErrDb, TRUE)
    ELSE UpdateResult(auth, pollId, formData, null, TRUE)

\* A mutation of updatePollRows: the row is found by its id alone and is given
\* to the caller.
updatePollRowsTakeOver(table, auth, pollId, formData) ==
    {IF row.id = pollId
     THEN [row EXCEPT !.question = FormQuestion(formData),
                      !.options = FormOptions(formData),
                      !.user_id = auth]
     ELSE row : row \in table}

\* .update({ question, options }).eq("id", pollId).eq("user_id", user.id)
updatePollRows(table, auth, pollId, formData) ==
    {IF OwnedBy(row, pollId, auth)
     THEN [row EXCEPT !.question = FormQuestion(formData),
                      !.options = FormOptions(formData)]
     ELSE row : row \in table}

\* updatePoll(pollId, formData)
updatePoll(auth, pollId, formData, dbError) ==
    /\ ret' = updatePollReturn(polls, auth, pollId, formData, dbError)
    /\ polls' = IF ret'.sent /\ ~dbError
                THEN updatePollRows(polls, auth, pollId, formData)
                ELSE polls
    /\ UNCHANGED <<now, authVars, pollRateLimitMap, passLog, votes, nextId, input, inflight, clientVars>>

\* submitVote(pollId, optionIndex)
submitVote(auth, pollId, optionIndex, dbError) ==
    LET userId == IF auth \in Users THEN auth ELSE null    \* user?.id ?? null
    IN  /\ IF dbError
           THEN /\ ret' = [op |-> "submitVote", actor |-> auth, id |-> pollId,
                           index |-> optionIndex, error |-> ErrDb, sent |-> TRUE]
                /\ UNCHANGED votes
           ELSE /\ votes' = Append(votes, [poll_id |-> pollId, user_id |-> userId,
                                           option_index |-> optionIndex])
                /\ ret' = [op |-> "submitVote", actor |-> auth, id |-> pollId,
                           index |-> optionIndex, error |-> null, sent |-> TRUE]
        /\ UNCHANGED <<now, authVars, pollRateLimitMap, passLog, polls, nextId, input, inflight, clientVars>>

\* A mutation of OwnPolls: the owner is not compared.
OwnPollsOfAnyone(table, userId) == table

\* .from("polls").select("*").eq("user_id", user.id)
OwnPolls(table, userId) == {row \in table : row.user_id = userId}

\* .order("created_at", { ascending: false }): the ways to list rows newest
\* first; rows created at the same instant come in the order the database
\* likes.
NewestFirst(rows) ==
    {list \in [1..Cardinality(rows) -> rows] :
        \A i, j \in 1..Cardinality(rows) :
            i < j => /\ list[i] # list[j]
                     /\ list[i].created_at >= list[j].created_at}

\* What getUserPolls returns, with (history) whether it sent a statement to
\* the database.
UserPollsResult(auth, list, error, sent) ==
    [op |-> "getUserPolls", actor |-> auth, polls |-> list, error |-> error,
     sent |-> sent]

\* getUserPolls(), which does not look at the error of getUser.
getUserPolls(auth, dbError) ==
    /\ IF auth \notin Users
       THEN ret' = UserPollsResult(auth, <<>>, ErrNotAuthenticated, FALSE)
       ELSE IF dbError
       THEN ret' = UserPollsResult(auth, <<>>, ErrDb, TRUE)
       ELSE \E list \in NewestFirst(OwnPolls(polls, auth)) :
               ret' = UserPollsResult(auth, list, null, TRUE)
    /\ UNCHANGED <<now, authVars, pollVars, input, inflight, clientVars>>

NoPoll == <<>>              \* poll: null; a poll returned is <<row>>
ErrSingle == "JSON object requested, multiple (or no) rows returned"
ErrPollNotFound == "Poll not found."

\* What getPollById returns, with (history) whether it sent a statement to
\* the database.
PollByIdResult(auth, id, poll, error, sent) ==
    [op |-> "getPollById", actor |-> auth, id |-> id, poll |-> poll,
     error |-> error, sent |-> sent]

\* .single(): the row when exactly one is selected, and an error otherwise.
Single(rows) == IF Cardinality(rows) = 1 THEN <<CHOOSE row \in rows : TRUE>> ELSE NoPoll

\* A mutation of getPollByIdReturn: the poll is looked up by id, and then
\* refused to a user who is not its owner.
getPollByIdReturnForbidden(table, auth, id, dbError) ==
    LET data == Single({row \in table : row.id = id})
    IN  IF auth = UserError THEN PollByIdResult(auth, id, NoPoll, ErrUser, FALSE)
        ELSE IF auth = NoUser
        THEN PollByIdResult(auth, id, NoPoll, ErrNotAuthenticated, FALSE)
        ELSE IF dbError THEN PollByIdResult(auth, id, NoPoll, ErrDb, TRUE)
        ELSE IF data = NoPoll THEN PollByIdResult(auth, id, NoPoll, ErrSingle, TRUE)
        ELSE IF data[1].user_id # auth
        THEN PollByIdResult(auth, id, NoPoll, "Forbidden", TRUE)
        ELSE PollByIdResult(auth, id, data, null, TRUE)

\* What getPollById(id) returns when the table polls is table.
getPollByIdReturn(table, auth, id, dbError) ==
    LET data == Single({row \in table : OwnedBy(row, id, auth)})
    IN  IF auth = UserError THEN PollByIdResult(auth, id, NoPoll, ErrUser, FALSE)
        ELSE IF auth = NoUser
        THEN PollByIdResult(auth, id, NoPoll, ErrNotAuthenticated, FALSE)
        ELSE IF dbError THEN PollByIdResult(auth, id, NoPoll, ErrDb, TRUE)
        ELSE IF data = NoPoll THEN PollByIdResult(auth, id, NoPoll, ErrSingle, TRUE)
        ELSE PollByIdResult(auth, id, data, null, TRUE)

\* getPollById(id)
getPollById(auth, id, dbError) ==
    /\ ret' = getPollByIdReturn(polls, auth, id, dbError)
    /\ UNCHANGED <<now, authVars, pollVars, input, inflight, clientVars>>

\* What the page of poll id shows to a visitor, whose session the page does
\* not look at: the poll, or "Poll not found.".
PollPageReturn(table, visitor, id, dbError) ==
    LET data == Single({row \in table : row.id = id})
    IN  IF dbError \/ data = NoPoll
        THEN [op |-> "PollPage", actor |-> visitor, id |-> id, poll |-> NoPoll,
              error |-> ErrPollNotFound, sent |-> TRUE]
        ELSE [op |-> "PollPage", actor |-> visitor, id |-> id, poll |-> data,
              error |-> null, sent |-> TRUE]

\* PollPage({ params: { id } })
PollPage(visitor, id, dbError) ==
    /\ ret' = PollPageReturn(polls, visitor, id, dbError)
    /\ UNCHANGED <<now, authVars, pollVars, input, inflight, clientVars>>

\* The forms the poll actions are given: two with a question and at least two
\* options, then no question, an empty one, one option, and one option once
\* the empty ones are dropped.
PollForms ==
    { [question |-> <<"a">>, options |-> << <<"a">>, <<>>, <<" ">> >>],
      [question |-> <<" ">>, options |-> << <<"a">>, <<"a">>, <<"a">> >>],
      [question |-> NullText, options |-> << <<"a">>, <<"a">> >>],
      [question |-> <<>>, options |-> << <<"a">>, <<"a">> >>],
      [question |-> <<"a">>, options |-> << <<"a">> >>],
      [question |-> <<"a">>, options |-> << <<"a">>, <<>> >>] }

InitPolls == InitCommon /\ input = <<>>

NextPolls ==
    \/ \E auth \in Sessions, formData \in PollForms, dbError \in BOOLEAN :
          nextId <= MaxPolls /\ createPoll(auth, formData, dbError)
    \/ \E auth \in Sessions, pollId \in 1..MaxPolls, formData \in PollForms,
          dbError \in BOOLEAN :
            updatePoll(auth, pollId, formData, dbError)
    \/ \E auth \in Sessions, id \in 1..MaxPolls, dbError \in BOOLEAN :
          deletePoll(auth, id, dbError)

SpecPolls == InitPolls /\ [][NextPolls]_vars

\* The number of createPoll calls that passed the limiter.
PassCount ==
    LET Count[U \in SUBSET DOMAIN passLog] ==
            IF U = {} THEN 0
            ELSE LET u == CHOOSE x \in U : TRUE
                 IN  Len(passLog[u]) + Count[U \ {u}]
    IN  Count[DOMAIN passLog]

RateForms ==
    { [question |-> <<"a">>, options |-> << <<"a">>, <<"a">> >>],
      [question |-> <<>>, options |-> << <<"a">>, <<"a">> >>] }

\* The users who can call next: "u2" comes after "u1" has passed the limiter,
\* since one new user is like another.
NextUsers == {u \in Users : u = "u1" \/ "u1" \in DOMAIN passLog}

NextPollRate ==
    \/ \E auth \in NextUsers \cup {NoUser}, formData \in RateForms,
          dbError \in BOOLEAN :
          /\ createPollRateLimited(auth, formData, dbError)
          /\ PassCount' <= MaxPasses
          /\ PassCount' - (nextId' - 1) <= MaxDbErrors
    \/ Tick

SpecPollRate == InitPolls /\ [][NextPollRate]_vars

VoteForms ==
    { [question |-> <<"a">>, options |-> << <<"a">>, <<"a">> >>],
      [question |-> <<"a">>, options |-> << <<"a">>, <<"a">>, <<"a">> >>] }

NextVotes ==
    \/ \E formData \in VoteForms :
          nextId <= MaxVotePolls /\ createPoll("u1", formData, FALSE)
    \/ \E pollId \in 1..MaxVotePolls, formData \in VoteForms :
          updatePoll("u1", pollId, formData, FALSE)
    \/ \E id \in 1..MaxVotePolls : deletePoll("u1", id, FALSE)
    \/ \E auth \in {"u1", NoUser}, pollId \in 1..MaxVotePolls,
          optionIndex \in -1..MaxOptions, dbError \in BOOLEAN :
            Len(votes) < MaxVotes /\ submitVote(auth, pollId, optionIndex, dbError)

SpecVotes == InitPolls /\ [][NextVotes]_vars

\* The forms given where the session varies: one that passes the validation
\* and one with no question.
SessionForms ==
    { [question |-> <<"a">>, options |-> << <<"a">>, <<"a">> >>],
      [question |-> <<>>, options |-> << <<"a">>, <<"a">> >>] }

\* Every poll action is called by a user, with no session, and with a
\* session getUser fails on.
NextSessions ==
    \/ \E auth \in Sessions, formData \in SessionForms, dbError \in BOOLEAN :
          nextId <= MaxVotePolls /\ createPoll(auth, formData, dbError)
    \/ \E auth \in Sessions, pollId \in 1..MaxVotePolls, formData \in SessionForms,
          dbError \in BOOLEAN :
            updatePoll(auth, pollId, formData, dbError)
    \/ \E auth \in Sessions, id \in 1..MaxVotePolls, dbError \in BOOLEAN :
          deletePoll(auth, id, dbError)
    \/ \E auth \in Sessions, dbError \in BOOLEAN : getUserPolls(auth, dbError)
    \/ \E auth \in Sessions, id \in 1..MaxVotePolls, dbError \in BOOLEAN :
          getPollById(auth, id, dbError)
    \/ \E auth \in Sessions, pollId \in 1..MaxVotePolls, dbError \in BOOLEAN :
          Len(votes) < MaxVotes /\ submitVote(auth, pollId, 0, dbError)

SpecSessions == InitPolls /\ [][NextSessions]_vars

\* The forms given where polls are read: two that pass the validation.
ReadForms ==
    { [question |-> <<"a">>, options |-> << <<"a">>, <<"a">> >>],
      [question |-> <<" ">>, options |-> << <<"a">>, <<>>, <<" ">> >>] }

\* The users who act where polls are read: "u2" comes once "u1" has created
\* a poll, since one new user is like another.
ReadUsers == {u \in Users : u = "u1" \/ nextId > 1}

\* Polls are created, changed and deleted by users and read by users and by
\* visitors with no session; time passes between two creations.
NextReads ==
    \/ \E auth \in ReadUsers, formData \in ReadForms :
          nextId <= MaxPolls /\ createPoll(auth, formData, FALSE)
    \/ \E auth \in ReadUsers, pollId \in 1..MaxPolls, formData \in ReadForms :
          updatePoll(auth, pollId, formData, FALSE)
    \/ \E auth \in ReadUsers, id \in 1..MaxPolls : deletePoll(auth, id, FALSE)
    \/ \E auth \in ReadUsers \cup {NoUser}, dbError \in BOOLEAN :
          getUserPolls(auth, dbError)
    \/ \E auth \in ReadUsers \cup {NoUser}, id \in 1..MaxPolls,
          dbError \in BOOLEAN :
            getPollById(auth, id, dbError)
    \/ \E visitor \in ReadUsers \cup {NoUser}, id \in 1..MaxPolls,
          dbError \in BOOLEAN :
            PollPage(visitor, id, dbError)
    \/ nextId <= MaxPolls /\ Tick

SpecReads == InitPolls /\ [][NextReads]_vars

----------------------------------------------------------------------------
(* PollVoteClient: getPercentage.  A number of JavaScript is an IEEE 754    *)
(* double: zero, or M * 2^(e - 53) with a mantissa M of 53 binary digits,  *)
(* 2^52 <= M < 2^53.  M is kept in three parts, M = hi * 2^36 + mid * 2^18 *)
(* + lo, with hi < 2^17, mid < 2^18 and lo < 2^18.  A division or a        *)
(* multiplication gives the double nearest to the exact result, the one    *)
(* with an even mantissa when two are as near.  The votes are whole        *)
(* numbers, which are doubles and add up exactly.                          *)

RECURSIVE Pow2(_)
Pow2(n) == IF n = 0 THEN 1 ELSE 2 * Pow2(n - 1)

Limb == Pow2(18)
TopLimb == Pow2(17)

Zero == [hi |-> 0, mid |-> 0, lo |-> 0, e |-> 0]

\* The double after x: its mantissa plus one.
Successor(x) ==
    IF x.lo + 1 < Limb THEN [x EXCEPT !.lo = @ + 1]
    ELSE IF x.mid + 1 < Limb THEN [x EXCEPT !.lo = 0, !.mid = @ + 1]
    ELSE IF x.hi + 1 < TopLimb THEN [x EXCEPT !.lo = 0, !.mid = 0, !.hi = @ + 1]
    ELSE [hi |-> Pow2(16), mid |-> 0, lo |-> 0, e |-> x.e + 1]

\* The double nearest to an exact result between x and its successor, where
\* half tells that the result is at least half way, and more that it is not
\* exactly x or exactly half way.
Nearest(x, half, more) ==
    IF half /\ (more \/ x.lo % 2 = 1) THEN Successor(x) ELSE x

\* The e for which 1/2 <= (a / b) / 2^e < 1, for whole numbers a, b >= 1.
RECURSIVE Exponent(_, _)
Exponent(a, b) ==
    IF a >= b THEN Exponent(a, 2 * b) + 1
    ELSE IF 2 * a < b THEN Exponent(2 * a, b) - 1
    ELSE 0

\* a / b, for whole numbers 0 <= a <= b and 1 <= b < 2^12: the quotient r / d
\* of the long division, 1/2 <= r / d < 1, is taken 17, 18 and 18 binary
\* digits at a time.
Divide(a, b) ==
    IF a = 0 THEN Zero
    ELSE LET e == Exponent(a, b)
             r == IF e < 0 THEN a * Pow2(-e) ELSE a
             d == IF e > 0 THEN b * Pow2(e) ELSE b
             r1 == (r * TopLimb) % d
             r2 == (r1 * Limb) % d
             r3 == (r2 * Limb) % d
         IN  Nearest([hi |-> (r * TopLimb) \div d, mid |-> (r1 * Limb) \div d,
                      lo |-> (r2 * Limb) \div d, e |-> e],
                     2 * r3 >= d, (2 * r3) % d # 0)

\* x * 100: the product of the mantissa by 100 has 59 or 60 binary digits, of
\* which the last k = 6 or 7 are rounded away.
Times100(x) ==
    IF x = Zero THEN Zero
    ELSE LET l == x.lo * 100
             m == (x.mid * 100) + (l \div Limb)
             h == (x.hi * 100) + (m \div Limb)
             k == IF h >= Pow2(23) THEN 7 ELSE 6
             away == (l % Limb) % Pow2(k)
         IN  Nearest([hi |-> h \div Pow2(k),
                      mid |-> ((m % Limb) \div Pow2(k)) + ((h % Pow2(k)) * Pow2(18 - k)),
                      lo |-> ((l % Limb) \div Pow2(k)) + ((m % Pow2(k)) * Pow2(18 - k)),
                      e |-> x.e + k],
                     away \div Pow2(k - 1) = 1, away % Pow2(k - 1) # 0)

\* Math.round(x), for 0 <= x < 2^16: the whole number nearest to x, and the
\* one above x when two are as near.
MathRound(x) ==
    IF x = Zero \/ x.e < 0 THEN 0
    ELSE (x.hi \div Pow2(17 - x.e)) + ((x.hi \div Pow2(16 - x.e)) % 2)

\* localOptions.reduce((sum, option) => sum + option.votes, 0)
RECURSIVE TotalVotes(_)
TotalVotes(localOptions) ==
    IF localOptions = <<>> THEN 0
    ELSE Head(localOptions) + TotalVotes(Tail(localOptions))

\* getPercentage(votes) for votes = optionVotes, where localOptions are the
\* votes of the options.
getPercentage(optionVotes, localOptions) ==
    LET totalVotes == TotalVotes(localOptions)
    IN  IF totalVotes = 0 THEN 0
        ELSE MathRound(Times100(Divide(optionVotes, totalVotes)))

\* The votes of the options of a poll.
VoteCounts == UNION {[1..n -> 0..MaxVoteCount] : n \in 0..MaxOptions}

InitPercentage == InitCommon /\ input \in VoteCounts

\* The percentages of all the options of a poll are computed.
ShowPercentages ==
    /\ ret.op = "none"
    /\ ret' = [op |-> "getPercentage",
               result |-> [i \in 1..Len(input) |-> getPercentage(input[i], input)],
               error |-> null]
    /\ UNCHANGED <<now, authVars, pollVars, input, inflight, clientVars>>

SpecPercentage == InitPercentage /\ [][ShowPercentages]_vars

----------------------------------------------------------------------------
(* Invocations in flight.  A server action is an async function: called,   *)
(* it runs until it suspends at an await or returns, and so does each of   *)
(* its continuations; no other invocation runs in between.  An invocation  *)
(* stands at the await it is suspended at, or at "write", between the read *)
(* and the write of its limiter, with the locals it has read; the locals   *)
(* have their first values where they are not read any more.  Invocations  *)
(* that stand at the same place with the same locals are alike.            *)

\* A mutation of AwaitPoints: the limiters suspend between read and write.
AwaitPointsInLimiter ==
    {"createClient", "signIn", "signUp", "getUser", "insert", "write"}

\* Where the actions have an await: await createClient(), await
\* supabase.auth.signInWithPassword / signUp / getUser, await ...insert.
AwaitPoints == {"createClient", "signIn", "signUp", "getUser", "insert"}

\* The invocations that are executing: at most one, since an invocation is
\* called or resumed only while none executes.
Executing == {inv \in BagToSet(inflight) : inv.pc \notin AwaitPoints}

\* Invocation inv can take its next step: it is executing, or nothing is and
\* what it awaits has settled.
CanRun(inv) ==
    /\ inv \in BagToSet(inflight)
    /\ inv.pc \in AwaitPoints => Executing = {}

\* A function can be called: nothing executes.
CanInvoke ==
    /\ Executing = {}
    /\ BagCardinality(inflight) < MaxInflight

Arrive(inv) == inflight (+) SetToBag({inv})
Move(inv, next) == (inflight (-) SetToBag({inv})) (+) SetToBag({next})
Return(inv) == inflight (-) SetToBag({inv})

AuthActions == {"login", "register"}
NoEntry == [count |-> 0, last |-> 0]

\* What login or register returns without asking the identity provider.
AuthResult(inv, error) ==
    IF inv.op = "login"
    THEN [op |-> "login", ip |-> inv.ip, error |-> error, provider |-> FALSE]
    ELSE [op |-> "register", ip |-> inv.ip, password |-> inv.password,
          signUp |-> "none", error |-> error, provider |-> FALSE,
          emailVerificationRequired |-> FALSE]

\* login(data) or register(data) is called, Math.random() giving ip: it runs
\* into checkRateLimit, which reads the clock and the entry of its key.
authInvoke(action, ip, password) ==
    /\ CanInvoke
    /\ calls < MaxCalls
    /\ calls' = calls + 1
    /\ inflight' = Arrive([op |-> action, pc |-> "write", ip |-> ip,
                           password |-> password, t |-> now,
                           entry |-> RateLimitEntry(rateLimitStore,
                                                    RateLimitKey(ip, action), now)])
    /\ ret' = NoRet
    /\ UNCHANGED <<now, rateLimitStore, authLog, signInLog, pollVars, input, clientVars>>

\* checkRateLimit goes on: it counts the call, stores the entry and compares
\* the count; login and register return its error, register checks the
\* password, and both come to await createClient().
authWrite(inv) ==
    /\ CanRun(inv)
    /\ inv.op \in AuthActions
    /\ inv.pc = "write"
    /\ LET key == RateLimitKey(inv.ip, inv.op)
           entry == RateLimitCount(inv.entry, inv.t)
           denied == RateLimitExceeded(entry.count)
       IN  /\ rateLimitStore' =
                 [k \in DOMAIN rateLimitStore \cup {key} |->
                     IF k = key THEN entry ELSE rateLimitStore[k]]
           /\ authLog' = AuthLogAfter(inv.ip, inv.op, ~denied)
           /\ IF denied
              THEN /\ ret' = AuthResult(inv, ErrRateLimit)
                   /\ inflight' = Return(inv)
              ELSE IF inv.op = "register" /\ PasswordRejected(inv.password)
              THEN /\ ret' = AuthResult(inv, ErrPassword)
                   /\ inflight' = Return(inv)
              ELSE /\ ret' = NoRet
                   /\ inflight' = Move(inv, [inv EXCEPT !.pc = "createClient",
                                                        !.t = 0, !.entry = NoEntry])
    /\ UNCHANGED <<now, signInLog, calls, pollVars, input, clientVars>>

\* createClient() has settled: the identity provider is asked.
authAskProvider(inv) ==
    /\ CanRun(inv)
    /\ inv.op \in AuthActions
    /\ inv.pc = "createClient"
    /\ inflight' = Move(inv, [inv EXCEPT
                                !.pc = IF inv.op = "login" THEN "signIn"
                                       ELSE "signUp"])
    /\ signInLog' = IF inv.op = "login" THEN SignInLogAfter ELSE signInLog
    /\ ret' = NoRet
    /\ UNCHANGED <<now, rateLimitStore, authLog, calls, pollVars, input, clientVars>>

\* The identity provider has answered: login or register returns.
authReturn(inv, answer) ==
    /\ CanRun(inv)
    /\ \/ /\ inv.pc = "signIn"
          /\ answer \in {"error", "ok"}
          /\ ret' = [op |-> "login", ip |-> inv.ip,
                     error |-> IF answer = "error" THEN ErrProvider ELSE null,
                     provider |-> TRUE]
       \/ /\ inv.pc = "signUp"
          /\ answer \in {"error", "unconfirmed", "confirmed"}
          /\ ret' = SignUpResult(inv.ip, inv.password, answer)
    /\ inflight' = Return(inv)
    /\ UNCHANGED <<now, authVars, pollVars, input, clientVars>>

\* The createPoll invocations in flight.
PollInvocations == {inv \in BagToSet(inflight) : inv.op = "createPoll"}

\* createPoll(formData) with the per-user limiter is called in the session
\* auth: it comes to await createClient().
pollInvoke(auth, formData) ==
    /\ CanInvoke
    /\ inflight' = Arrive([op |-> "createPoll", pc |-> "createClient",
                           auth |-> auth, form |-> formData, t |-> 0,
                           timestamps |-> <<>>])
    /\ ret' = NoRet
    /\ UNCHANGED <<now, authVars, pollVars, input, clientVars>>

\* createClient() has settled: the form is validated and getUser is asked.
pollValidate(inv) ==
    /\ CanRun(inv)
    /\ inv.op = "createPoll"
    /\ inv.pc = "createClient"
    /\ IF PollInputInvalid(FormQuestion(inv.form), FormOptions(inv.form))
       THEN /\ ret' = CreateLimitedResult(inv.auth, inv.form, ErrPollInput, FALSE)
            /\ inflight' = Return(inv)
       ELSE /\ ret' = NoRet
            /\ inflight' = Move(inv, [inv EXCEPT !.pc = "getUser"])
    /\ UNCHANGED <<now, authVars, pollVars, input, clientVars>>

\* getUser has answered: without a user createPoll returns; with one, its
\* limiter reads the clock and the timestamps of the user that are recent.
pollRead(inv) ==
    /\ CanRun(inv)
    /\ inv.op = "createPoll"
    /\ inv.pc = "getUser"
    /\ IF inv.auth \notin Users
       THEN /\ ret' = CreateLimitedResult(inv.auth, inv.form,
                          IF inv.auth = UserError THEN ErrUser
                          ELSE ErrLoginCreate, FALSE)
            /\ inflight' = Return(inv)
       ELSE /\ ret' = NoRet
            /\ inflight' =
                  Move(inv, [inv EXCEPT
                               !.pc = "write", !.t = now,
                               !.timestamps =
                                   RecentTimestamps(pollRateLimitMap, inv.auth, now)])
    /\ UNCHANGED <<now, authVars, pollVars, input, clientVars>>

\* The limiter goes on: with 3 recent timestamps createPoll returns the
\* rate-limit error; otherwise the time read is pushed, the timestamps are
\* stored and the insert is sent.
pollWrite(inv) ==
    /\ CanRun(inv)
    /\ inv.op = "createPoll"
    /\ inv.pc = "write"
    /\ IF PollRateExceeded(inv.timestamps)
       THEN /\ ret' = CreateLimitedResult(inv.auth, inv.form, ErrPollRate, FALSE)
            /\ inflight' = Return(inv)
            /\ UNCHANGED <<pollRateLimitMap, passLog>>
       ELSE /\ ret' = NoRet
            /\ pollRateLimitMap' =
                  [u \in DOMAIN pollRateLimitMap \cup {inv.auth} |->
                      IF u = inv.auth THEN Append(inv.timestamps, inv.t)
                      ELSE pollRateLimitMap[u]]
            /\ passLog' = PassLogAfter(inv.auth)
            /\ inflight' = Move(inv, [inv EXCEPT !.pc = "insert", !.t = 0,
                                                 !.timestamps = <<>>])
    /\ UNCHANGED <<now, authVars, polls, votes, nextId, input, clientVars>>

\* The database has answered the insert: createPoll returns.
pollInsert(inv, dbError) ==
    /\ CanRun(inv)
    /\ inv.op = "createPoll"
    /\ inv.pc = "insert"
    /\ IF dbError
       THEN /\ ret' = CreateLimitedResult(inv.auth, inv.form, ErrDb, TRUE)
            /\ UNCHANGED <<polls, nextId>>
       ELSE /\ polls' = polls \cup {PollRow(inv.auth, FormQuestion(inv.form),
                                            FormOptions(inv.form))}
            /\ nextId' = nextId + 1
            /\ ret' = CreateLimitedResult(inv.auth, inv.form, null, TRUE)
    /\ inflight' = Return(inv)
    /\ UNCHANGED <<now, authVars, pollRateLimitMap, passLog, votes, input, clientVars>>

\* The clock is read as one value by a run of an invocation: time passes
\* while nothing executes.
TickIdle == Executing = {} /\ Tick

\* The form given where invocations are in flight at once.
InflightForms == { [question |-> <<"a">>, options |-> << <<"a">>, <<"a">> >>] }

\* The string Math.random() gives where invocations are in flight at once:
\* the invocations are calls on one key of login and one key of register.
InflightIPs == {1}

\* The two limiters are separate tables of separate modules, and an
\* invocation touches the table of its own action only: a behaviour has
\* invocations of login and register, or invocations of createPoll.
NextInflight ==
    \/ \E action \in AuthActions, ip \in InflightIPs :
          /\ pollRateLimitMap = <<>> /\ PollInvocations = {}
          /\ calls < MaxInflightCalls
          /\ authInvoke(action, ip, StrongPassword)
    \/ \E inv \in BagToSet(inflight) : authWrite(inv)
    \/ \E inv \in BagToSet(inflight) : authAskProvider(inv)
    \/ \E inv \in BagToSet(inflight), answer \in {"ok", "confirmed"} :
          authReturn(inv, answer)
    \/ \E formData \in InflightForms :
          /\ calls = 0
          /\ PassCount + BagCardinality(inflight) < MaxPasses
          /\ pollInvoke("u1", formData)
    \/ \E inv \in BagToSet(inflight) : pollValidate(inv)
    \/ \E inv \in BagToSet(inflight) : pollRead(inv)
    \/ \E inv \in BagToSet(inflight) : pollWrite(inv)
    \/ \E inv \in BagToSet(inflight), dbError \in BOOLEAN : pollInsert(inv, dbError)
    \/ TickIdle

SpecInflight == InitPolls /\ [][NextInflight]_vars

\* The calls through a limiter: login and register on the keys of one
\* string, and createPoll.  The two limiters are separate tables of separate
\* modules: a behaviour has calls of login and register, or calls of
\* createPoll.
NextLimiters ==
    \/ \E ip \in InflightIPs, signIn \in {"error", "ok"} :
          pollRateLimitMap = <<>> /\ login(ip, signIn)
    \/ \E ip \in InflightIPs, password \in AuthPasswords :
          pollRateLimitMap = <<>> /\ register(ip, password, "confirmed")
    \/ \E auth \in NextUsers \cup {NoUser}, formData \in RateForms,
          dbError \in BOOLEAN :
          /\ calls = 0
          /\ createPollRateLimited(auth, formData, dbError)
          /\ PassCount' <= MaxPasses
          /\ PassCount' - (nextId' - 1) <= MaxDbErrors
    \/ Tick

SpecLimiters == InitPolls /\ [][NextLimiters]_vars

----------------------------------------------------------------------------
(* The voting component of the poll page.  voteState is the state of the   *)
(* component, voteView the state as of the render the page shows: a click  *)
(* or a key press is handled with its updates rendered before the next     *)
(* event, while the updates of a run of handleVote that resumes after an   *)
(* await are rendered in a step of their own.  An event reaches only what  *)
(* voteView shows, and handleVote reads the selection of that render.      *)

MaxVoteRuns == 2    \* the clicks of Submit Vote in one behaviour

ErrSignIn == "Please sign in to vote."
ErrSelect == "Please select an option."
ErrVote == "Failed to submit vote."
ErrUnexpected == "Unexpected error: "

\* The poll_options rows of the poll shown.
PollOptionRows ==
    <<[id |-> "o1", option_text |-> "a"], [id |-> "o2", option_text |-> "b"]>>

\* PollPage hands the component the text of each row; the text is a string,
\* a value without an id.
PageOptions(rows) == [i \in DOMAIN rows |-> [text |-> rows[i].option_text]]

\* option.id
OptionId(option) == IF "id" \in DOMAIN option THEN option.id ELSE Undefined

\* !value, for the values a selection takes
Falsy(value) == value \in {null, Undefined}

\* The options the component is given: those of PollPage, and rows with ids
\* as its render expects them.
OptionProps == {PageOptions(PollOptionRows), PollOptionRows}

InitVoteClient == InitCommon /\ input \in OptionProps

\* A mutation of ButtonDisabled: the button stays enabled while submitting.
ButtonDisabledNoSelection(view) == Falsy(view.selectedOption)

\* disabled={!selectedOption || isSubmitting}
ButtonDisabled(view) == Falsy(view.selectedOption) \/ view.isSubmitting

\* A mutation of VoteFailed: the error of the call is not looked at.
VoteFailedNever(answer) == FALSE

\* if (rpcError)
VoteFailed(answer) == answer = "error"

HandleVoteRet(step, answer, option) ==
    [op |-> "handleVote", error |-> voteState'.error, step |-> step,
     answer |-> answer, option |-> option]

\* A click or a key press on an option, shown while the vote is not cast.
SelectOption ==
    /\ ~voteView.hasVoted
    /\ \E i \in DOMAIN input :
        voteState' = [voteState EXCEPT !.selectedOption = OptionId(input[i])]
    /\ voteView' = voteState'
    /\ ret' = NoRet
    /\ UNCHANGED <<now, authVars, pollVars, input, inflight, voteRuns, voteCalls>>

\* A click on Submit Vote, shown while the vote is not cast: handleVote up
\* to its first await.  createClient returns the client or throws.
ClickVote ==
    /\ ~voteView.hasVoted
    /\ ~ButtonDisabled(voteView)
    /\ Len(voteCalls) < MaxVoteRuns
    /\ \E answer \in {"client", "throw"} :
        IF answer = "throw"
        THEN /\ voteState' = [voteState EXCEPT !.error = ErrUnexpected,
                                               !.isSubmitting = FALSE]
             /\ voteRuns' = voteRuns
             /\ voteCalls' =
                    Append(voteCalls, [option |-> voteView.selectedOption,
                                       user |-> "unknown", call |-> "none"])
             /\ ret' = HandleVoteRet("createClient", answer, voteView.selectedOption)
        ELSE /\ voteState' = [voteState EXCEPT !.error = null,
                                               !.isSubmitting = TRUE]
             /\ voteRuns' =
                    voteRuns (+) SetToBag({[pc |-> "getUser",
                                            selectedOption |-> voteView.selectedOption,
                                            run |-> Len(voteCalls) + 1]})
             /\ voteCalls' =
                    Append(voteCalls, [option |-> voteView.selectedOption,
                                       user |-> "unknown", call |-> "none"])
             /\ ret' = HandleVoteRet("createClient", answer, voteView.selectedOption)
    /\ voteView' = voteState'
    /\ UNCHANGED <<now, authVars, pollVars, input, inflight>>

\* The run leaves handleVote: finally.
Finished(run, error, voted) ==
    /\ voteState' = [voteState EXCEPT !.error = error,
                                      !.hasVoted = voted,
                                      !.isSubmitting = FALSE]
    /\ voteRuns' = voteRuns (-) SetToBag({run})

\* supabase.auth.getUser() settles: a user, no user, an error, or a throw.
GetUserSettles ==
    \E run \in BagToSet(voteRuns) :
        /\ run.pc = "getUser"
        /\ \E answer \in {"user", "none", "error", "throw"} :
            /\ IF answer = "throw"
               THEN /\ Finished(run, ErrUnexpected, voteState.hasVoted)
                    /\ voteCalls' = [voteCalls EXCEPT ![run.run].user = answer]
               ELSE IF answer \in {"none", "error"}
               THEN /\ Finished(run, ErrSignIn, voteState.hasVoted)
                    /\ voteCalls' = [voteCalls EXCEPT ![run.run].user = answer]
               ELSE IF Falsy(run.selectedOption)
               THEN /\ Finished(run, ErrSelect, voteState.hasVoted)
                    /\ voteCalls' = [voteCalls EXCEPT ![run.run].user = answer]
               ELSE /\ voteState' = voteState
                    /\ voteRuns' =
                           (voteRuns (-) SetToBag({run}))
                               (+) SetToBag({[run EXCEPT !.pc = "rpc"]})
                    /\ voteCalls' = [voteCalls EXCEPT ![run.run].user = answer,
                                                       ![run.run].call = "pending"]
            /\ ret' = HandleVoteRet("getUser", answer, run.selectedOption)
        /\ UNCHANGED <<now, authVars, pollVars, input, inflight, voteView>>

\* supabase.rpc("vote_on_option", ...) settles: done, an error, or a throw.
RpcSettles ==
    \E run \in BagToSet(voteRuns) :
        /\ run.pc = "rpc"
        /\ \E answer \in {"ok", "error", "throw"} :
            /\ IF answer = "throw"
               THEN Finished(run, ErrUnexpected, voteState.hasVoted)
               ELSE IF VoteFailed(answer)
               THEN Finished(run, ErrVote, voteState.hasVoted)
               ELSE Finished(run, voteState.error, TRUE)
            /\ voteCalls' = [voteCalls EXCEPT ![run.run].call = answer]
            /\ ret' = HandleVoteRet("rpc", answer, run.selectedOption)
        /\ UNCHANGED <<now, authVars, pollVars, input, inflight, voteView>>

\* The component renders the updates of a resumed run.
Render ==
    /\ voteView # voteState
    /\ voteView' = voteState
    /\ ret' = NoRet
    /\ UNCHANGED <<now, authVars, pollVars, input, inflight, voteState,
                   voteRuns, voteCalls>>

\* An awaited call of a run in flight settles.
Settles == GetUserSettles \/ RpcSettles

NextVoteClient ==
    \/ SelectOption
    \/ ClickVote
    \/ GetUserSettles
    \/ RpcSettles
    \/ Render

SpecVoteClient == InitVoteClient /\ [][NextVoteClient]_vars

\* The awaited calls settle.
SpecVoteClientSettles == SpecVoteClient /\ WF_vars(Settles)

----------------------------------------------------------------------------
(* The validations, each applied to one input.                             *)

Texts == UNION {[1..n -> Chars] : n \in 0..MaxStrLen}
OptionTexts == UNION {[1..n -> Chars] : n \in 0..1}
FormDatas ==
    [question : Texts \cup {NullText},
     options : UNION {[1..n -> OptionTexts] : n \in 0..MaxOptions}]

InitShape == InitCommon /\ input \in FormDatas

\* createPoll and updatePoll validate the form they are given.
ValidatePollInput ==
    /\ ret.op = "none"
    /\ ret' = [op |-> "validatePollInput", error |-> PollInputError(input)]
    /\ UNCHANGED <<now, authVars, pollVars, input, inflight, clientVars>>

SpecShape == InitShape /\ [][ValidatePollInput]_vars

PwChars == {48, 64, 65, 97}       \* "0", "@", "A", "a"
Passwords == UNION {[1..n -> PwChars] : n \in 0..MaxPwLen}

InitPassword == InitCommon /\ input \in Passwords

\* register validates the password it is given.
ValidatePassword ==
    /\ ret.op = "none"
    /\ ret' = [op |-> "validatePassword",
               error |-> IF PasswordRejected(input) THEN ErrPassword ELSE null]
    /\ UNCHANGED <<now, authVars, pollVars, input, inflight, clientVars>>

SpecPassword == InitPassword /\ [][ValidatePassword]_vars

----------------------------------------------------------------------------
(* Properties of the rate limiter and of the authentication actions.       *)

\* C3: on every key, the first 5 calls of a window are allowed and the 6th
\* and every later call of that window are denied; the first call after the
\* window has elapsed opens a new window and is allowed.
C3_FiveCallsPerWindow ==
    \A key \in DOMAIN authLog :
        \A i \in 1..Len(authLog[key].calls) :
            authLog[key].calls[i] <=> (i <= 5)

\* A key whose window took 6 calls or more, and whose next call, made after
\* that window had elapsed, was allowed.
C3_Witness ==
    \E key \in DOMAIN authLog :
        /\ authLog[key].prev >= 6
        /\ authLog[key].calls[1]

\* C4: at most 5 login invocations made in one 60 s window reach the identity
\* provider.
C4_LoginBlocked == signInLog.n <= 5

\* The password policy: at least 8 characters, with an uppercase letter, a
\* lowercase letter, a digit and a character that is none of these.
MeetsPolicy(p) ==
    /\ Len(p) >= 8
    /\ \E i \in 1..Len(p) : p[i] \in 65..90
    /\ \E i \in 1..Len(p) : p[i] \in 97..122
    /\ \E i \in 1..Len(p) : p[i] \in 48..57
    /\ \E i \in 1..Len(p) : p[i] \notin (65..90) \cup (97..122) \cup (48..57)

\* C9: the password check of register accepts a password if and only if it
\* meets the policy, and answers the one policy error otherwise.
C9_PasswordPolicy ==
    ret.op = "validatePassword" =>
        /\ ret.error = null <=> MeetsPolicy(input)
        /\ ret.error \in {null, ErrPassword}

\* A password of 8 characters with all four kinds of character, accepted.
C9_Witness ==
    /\ ret.op = "validatePassword"
    /\ Len(input) = 8
    /\ MeetsPolicy(input)
    /\ ret.error = null

C11_VerificationFlag ==
    ( /\ ret.op = "register"
      /\ MeetsPolicy(ret.password)
      /\ ret.signUp \in {"unconfirmed", "confirmed"} ) =>
        IF ret.signUp = "unconfirmed"
        THEN ret.emailVerificationRequired /\ ret.error # null
        ELSE ~ret.emailVerificationRequired /\ ret.error = null

\* A step of register makes no signInWithPassword call.
C11_NoSignIn == ret'.op = "register" => signInLog' = signInLog

\* C11: when register is called with a password that meets the policy and
\* signUp returns no error, the result carries emailVerificationRequired, with
\* a message, if and only if the returned user has no email_confirmed_at, and
\* is { error: null } otherwise; register never signs in.
C11_VerificationRequired == []C11_VerificationFlag /\ [][C11_NoSignIn]_vars

\* A registration that was answered with an unconfirmed user and returned the
\* flag, no sign-in having been made.
C11_Witness ==
    /\ ret.op = "register"
    /\ ret.signUp = "unconfirmed"
    /\ ret.emailVerificationRequired
    /\ ret.error = ErrVerifyEmail
    /\ signInLog.n = 0

----------------------------------------------------------------------------
(* Properties of the poll actions.                                         *)

\* The row of polls with the given id and owner, if there is one.
OwnRows(id, userId) == {row \in polls : row.id = id /\ row.user_id = userId}

\* A form with a question and at least two options that are not empty.
UsableForm(formData) ==
    /\ formData.question \notin {NullText, <<>>}
    /\ Cardinality({i \in 1..Len(formData.options) : formData.options[i] # <<>>}) >= 2

\* The options of a form that are not empty, in order.
RECURSIVE GivenOptions(_)
GivenOptions(options) ==
    IF options = <<>> THEN <<>>
    ELSE IF Head(options) = <<>> THEN GivenOptions(Tail(options))
    ELSE <<Head(options)>> \o GivenOptions(Tail(options))

\* A step of updatePoll or deletePoll by an authenticated actor keeps every
\* row that is not the target poll owned by that actor, and adds no row but
\* the changed target.
C1_OthersKept ==
    (ret'.op \in {"updatePoll", "deletePoll"} /\ ret'.actor \in Users) =>
        /\ \A row \in polls :
              ~(row.id = ret'.id /\ row.user_id = ret'.actor) => row \in polls'
        /\ \A row \in polls' :
              \/ row \in polls
              \/ \E old \in OwnRows(ret'.id, ret'.actor) :
                    /\ row.id = old.id
                    /\ row.user_id = old.user_id
                    /\ row.created_at = old.created_at

\* A step of updatePoll by the owner, with a usable form and no database
\* error, succeeds and leaves the target with the form's question and options.
C1_OwnerUpdates ==
    ( /\ ret'.op = "updatePoll"
      /\ ret'.actor \in Users
      /\ ret'.error # ErrDb
      /\ UsableForm(ret'.form)
      /\ OwnRows(ret'.id, ret'.actor) # {} ) =>
        /\ ret'.error = null
        /\ \A old \in OwnRows(ret'.id, ret'.actor) :
              [old EXCEPT !.question = ret'.form.question,
                          !.options = GivenOptions(ret'.form.options)] \in polls'
        /\ Cardinality(polls') = Cardinality(polls)

\* A step of deletePoll by the owner, with no database error, succeeds and
\* removes the target.
C1_OwnerDeletes ==
    ( /\ ret'.op = "deletePoll"
      /\ ret'.actor \in Users
      /\ ret'.error # ErrDb
      /\ OwnRows(ret'.id, ret'.actor) # {} ) =>
        /\ ret'.error = null
        /\ ~ \E row \in polls' : row.id = ret'.id
        /\ Cardinality(polls') = Cardinality(polls) - 1

\* C1: updatePoll and deletePoll by an actor who is not the owner of the
\* target poll leave that poll's row, and every other row, unchanged; by the
\* owner (with a valid question and at least two options, for updatePoll)
\* they change that one row and no other.
C1_OnlyOwnerChangesPoll ==
    [][C1_OthersKept /\ C1_OwnerUpdates /\ C1_OwnerDeletes]_vars

\* updatePoll or deletePoll was called on an existing poll by a user who is
\* not its owner, and the poll is there.
C1_Witness ==
    /\ ret.op \in {"updatePoll", "deletePoll"}
    /\ ret.actor \in Users
    /\ ret.error = null
    /\ \E row \in polls : row.id = ret.id /\ row.user_id # ret.actor

\* C2: updatePoll or deletePoll by an authenticated actor, when no row has
\* both the poll id and the actor as owner, returns an error, never success.
C2_NoOwnedRowIsError ==
    [][ ( /\ ret'.op \in {"updatePoll", "deletePoll"}
          /\ ret'.actor \in Users
          /\ OwnRows(ret'.id, ret'.actor) = {} ) => ret'.error # null ]_vars

\* The createPoll calls of userKey that passed the limiter less than 60 s ago.
RecentPasses(userKey) ==
    IF userKey \in DOMAIN passLog
    THEN {i \in 1..Len(passLog[userKey]) : now - passLog[userKey][i] < 60 * 1000}
    ELSE {}

\* At every instant, for every user, at most 3 createPoll calls passed the
\* limiter in the preceding 60 s.
C5_AtMostThree == \A u \in Users : Cardinality(RecentPasses(u)) <= 3

\* A createPoll call by a user, with a valid form, is refused by the limiter
\* exactly when 3 calls of that same user passed it in the preceding 60 s, and
\* then inserts no row.
C5_FourthRefused ==
    ( /\ ret'.op = "createPollRateLimited"
      /\ ret'.actor \in Users
      /\ ret'.error # ErrPollInput ) =>
        IF Cardinality(RecentPasses(ret'.actor)) >= 3
        THEN ret'.error = ErrPollRate /\ polls' = polls
        ELSE ret'.error # ErrPollRate

\* C5: poll creation is limited, per user, to 3 per 60 s window; a further
\* call in the window gets the rate-limit error and inserts no row; the polls
\* of one user do not count against another.
C5_PollCreationLimited == []C5_AtMostThree /\ [][C5_FourthRefused]_vars

\* A user was refused by the limiter while the other user had created a poll.
C5_Witness ==
    /\ ret.op = "createPollRateLimited"
    /\ ret.error = ErrPollRate
    /\ \E u \in Users : u # ret.actor /\ RecentPasses(u) # {}

\* s without its leading white space.
RECURSIVE TrimStart(_)
TrimStart(s) ==
    IF s # <<>> /\ Head(s) \in WhiteSpace THEN TrimStart(Tail(s)) ELSE s

\* A text that is null or empty once trimmed.
Blank(s) == s = NullText \/ TrimStart(s) = <<>>

\* C6: the validation of createPoll and updatePoll rejects a form if and only
\* if its question is empty or blank or fewer than 2 of its options are not
\* blank.
C6_RejectsBlank ==
    ret.op = "validatePollInput" =>
        ( ret.error # null <=>
            \/ Blank(input.question)
            \/ Cardinality({i \in 1..Len(input.options) :
                               ~Blank(input.options[i])}) < 2 )

\* Every stored poll has a question that is not empty and at least 2 options.
C7_StoredPollsValid ==
    \A row \in polls :
        /\ row.question \notin {NullText, <<>>}
        /\ Len(row.options) >= 2

\* A createPoll or updatePoll call with fewer than 2 options is rejected and
\* changes no row.
C7_FewOptionsRejected ==
    ( /\ ret'.op \in {"createPoll", "updatePoll"}
      /\ Len(GivenOptions(ret'.form.options)) < 2 ) =>
        (ret'.error = ErrPollInput /\ polls' = polls)

\* C7: after any createPoll and updatePoll calls every stored poll has a
\* non-empty question and at least 2 options, and a call with fewer than 2
\* options is rejected and neither inserts nor changes a row.
C7_TwoOptions == []C7_StoredPollsValid /\ [][C7_FewOptionsRejected]_vars

\* A poll is stored, and the last call, with one option, was rejected.
C7_Witness ==
    /\ polls # {}
    /\ ret.op \in {"createPoll", "updatePoll"}
    /\ Len(ret.form.options) = 1
    /\ ret.error = ErrPollInput

\* C8: submitVote with an option index out of the range of the target poll's
\* options is rejected with an error and inserts no vote row.
C8_OutOfRangeRejected ==
    [][ ( /\ ret'.op = "submitVote"
          /\ \E row \in polls :
                /\ row.id = ret'.id
                /\ (ret'.index < 0 \/ ret'.index >= Len(row.options)) )
        => (ret'.error # null /\ votes' = votes) ]_vars

\* The actions on polls that ask for a user.
UserActions == {"createPoll", "getUserPolls", "getPollById", "updatePoll", "deletePoll"}

\* The errors that say that there is no authenticated user: the message of
\* the action, or the error getUser gave.
UnauthenticatedErrors == {ErrLoginCreate, ErrLoginUpdate, ErrNotAuthenticated, ErrUser}

\* A step of submitVote with no user that the database does not refuse
\* inserts a vote row with a null voter id.
C12_AnonymousVote ==
    (ret'.op = "submitVote" /\ ret'.actor \notin Users /\ ret'.error # ErrDb) =>
        /\ ret'.error = null
        /\ votes' = Append(votes, [poll_id |-> ret'.id, user_id |-> null,
                                  option_index |-> ret'.index])

\* C12 as stated: createPoll, getUserPolls, getPollById, updatePoll and
\* deletePoll with no authenticated user return an unauthenticated error and
\* send no statement to the database; submitVote with no user inserts a vote
\* row with a null voter id.
C12_UnauthenticatedError ==
    [][ /\ (ret'.op \in UserActions /\ ret'.actor \notin Users) =>
              /\ ret'.error \in UnauthenticatedErrors
              /\ ~ret'.sent
              /\ polls' = polls
        /\ C12_AnonymousVote ]_vars

\* C12, amended: with no authenticated user, createPoll and updatePoll given
\* a form that fails the validation return the validation error, and
\* otherwise the five actions return an unauthenticated error; in both cases
\* they send no statement to the database; submitVote with no user inserts a
\* vote row with a null voter id.
C12_NoUserNoStatement ==
    [][ /\ (ret'.op \in UserActions /\ ret'.actor \notin Users) =>
              /\ ret'.error =
                    IF ret'.op \in {"createPoll", "updatePoll"} /\ ~UsableForm(ret'.form)
                    THEN ErrPollInput
                    ELSE CASE ret'.actor = UserError /\ ret'.op # "getUserPolls" -> ErrUser
                           [] ret'.op = "createPoll" -> ErrLoginCreate
                           [] ret'.op = "updatePoll" -> ErrLoginUpdate
                           [] OTHER -> ErrNotAuthenticated
              /\ ~ret'.sent
              /\ polls' = polls
        /\ C12_AnonymousVote ]_vars

\* A poll is stored with a vote of no user on it, and the last call, an
\* update of that poll with a good form and no session, was refused.
C12_Witness ==
    /\ ret.op = "updatePoll"
    /\ ret.actor = NoUser
    /\ UsableForm(ret.form)
    /\ ret.error = ErrLoginUpdate
    /\ \E row \in polls : row.id = ret.id
    /\ \E i \in 1..Len(votes) : votes[i].user_id = null /\ votes[i].poll_id = ret.id

\* C13: getPollById and the page of a poll return the poll of the given id
\* only to its owner, and to anyone else a not-found or forbidden outcome
\* with no poll data.
C13_OnlyOwnerReads ==
    ret.op \in {"getPollById", "PollPage"} =>
        IF ret.poll = NoPoll
        THEN ret.error # null
        ELSE /\ ret.poll[1].id = ret.id
             /\ ret.poll[1].user_id = ret.actor

\* The table polls as it would be if no poll had the given id.
WithoutPoll(table, id) == {row \in table : row.id # id}

\* The id names a poll that is owned by another user than userId.
OthersPoll(table, id, userId) ==
    \E row \in table : row.id = id /\ row.user_id # userId

\* In every state, whatever the database answers, getPollById, updatePoll and
\* deletePoll called by a user on another user's poll return what they would
\* return if that poll did not exist.
C14_SameReturn ==
    \A auth \in Users, id \in 1..MaxPolls :
        OthersPoll(polls, id, auth) =>
            \A dbError \in BOOLEAN :
                /\ getPollByIdReturn(polls, auth, id, dbError) =
                       getPollByIdReturn(WithoutPoll(polls, id), auth, id, dbError)
                /\ deletePollReturn(polls, auth, id, dbError) =
                       deletePollReturn(WithoutPoll(polls, id), auth, id, dbError)
                /\ \A formData \in ReadForms :
                       updatePollReturn(polls, auth, id, formData, dbError) =
                          updatePollReturn(WithoutPoll(polls, id), auth, id,
                                           formData, dbError)

\* What a call of getPollById, updatePoll or deletePoll on another user's poll
\* returned is what it returns, on the same answer of the database, when that
\* poll does not exist; and the call leaves the table as it is.
C14_SameStep ==
    ( /\ ret'.op \in {"getPollById", "updatePoll", "deletePoll"}
      /\ ret'.actor \in Users
      /\ OthersPoll(polls, ret'.id, ret'.actor) ) =>
        /\ polls' = polls
        /\ ret' =
             CASE ret'.op = "getPollById" ->
                    getPollByIdReturn(WithoutPoll(polls, ret'.id), ret'.actor,
                                      ret'.id, ret'.error = ErrDb)
               [] ret'.op = "deletePoll" ->
                    deletePollReturn(WithoutPoll(polls, ret'.id), ret'.actor,
                                     ret'.id, ret'.error = ErrDb)
               [] ret'.op = "updatePoll" ->
                    updatePollReturn(WithoutPoll(polls, ret'.id), ret'.actor,
                                     ret'.id, ret'.form, ret'.error = ErrDb)

\* C14: for an authenticated actor and a poll id, getPollById, updatePoll and
\* deletePoll return the same in a state where the id names no poll and in a
\* state that differs only in that the id names a poll of another user.
C14_ExistenceNotObservable == []C14_SameReturn /\ [][C14_SameStep]_vars

\* getPollById was called on a stored poll by a user who is not its owner,
\* and answered as for a poll that does not exist.
C14_Witness ==
    /\ ret.op = "getPollById"
    /\ ret.actor \in Users
    /\ OthersPoll(polls, ret.id, ret.actor)
    /\ ret.error = ErrSingle
    /\ ret.poll = NoPoll

\* The whole number nearest to the fraction num / den, and the one above it
\* when two are as near.
Rounded(num, den) == CHOOSE p \in 0..num : 2 * den * p - den <= 2 * num /\ 2 * num < 2 * den * p + den

\* C15: for a list of vote counts, getPercentage of an option is
\* round(votes / totalVotes * 100), and 0 when totalVotes is 0; it lies
\* between 0 and 100.
C15_RoundedPercentage ==
    ret.op = "getPercentage" =>
        \A i \in 1..Len(input) :
            /\ ret.result[i] \in 0..100
            /\ ret.result[i] =
                  IF TotalVotes(input) = 0 THEN 0
                  ELSE Rounded(input[i] * 100, TotalVotes(input))

\* Whether a list has the rows of a set, each once, the newest first.
ListsNewestFirst(list, rows) ==
    /\ Len(list) = Cardinality(rows)
    /\ {list[i] : i \in 1..Len(list)} = rows
    /\ \A i, j \in 1..Len(list) :
          i < j => list[i].created_at >= list[j].created_at

\* A call of getUserPolls by a user that the database answers returns, with
\* error null, the stored polls of that user and no other, the newest first.
C16_ListStep ==
    \A auth \in Users :
        (ret'.op = "getUserPolls" /\ getUserPolls(auth, FALSE)) =>
            /\ ret'.error = null
            /\ ListsNewestFirst(ret'.polls,
                                {row \in polls : row.user_id = auth})

\* C16: after any creations, updates and deletions of polls by any users,
\* getUserPolls returns to a user exactly the stored polls that user owns,
\* newest first, and an empty list with error null when the user owns none.
C16_OwnPollsNewestFirst == [][C16_ListStep]_vars

\* getUserPolls listed the poll of the caller and left out the poll another
\* user created later.
C16_Witness ==
    /\ ret.op = "getUserPolls"
    /\ ret.actor \in Users
    /\ ret.error = null
    /\ Len(ret.polls) = 1
    /\ \E row \in polls : /\ row.user_id # ret.actor
                           /\ row.created_at > ret.polls[1].created_at

C17_WeakPasswordStep ==
    (ret'.op = "register" /\ ~MeetsPolicy(ret'.password)) =>
        LET key == RateLimitKey(ret'.ip, "register")
            before == IF /\ key \in DOMAIN rateLimitStore
                         /\ now - rateLimitStore[key].last <= 60 * 1000
                      THEN rateLimitStore[key].count
                      ELSE 0
        IN  /\ key \in DOMAIN rateLimitStore'
            /\ rateLimitStore'[key].count = before + 1
            /\ ret'.error = IF before + 1 > 5 THEN ErrRateLimit ELSE ErrPassword

C18_VotesReferenceOptions ==
    \A i \in 1..Len(votes) :
        \E row \in polls :
            /\ row.id = votes[i].poll_id
            /\ votes[i].option_index \in 0..(Len(row.options) - 1)

\* Every call counted on a key is in the count recorded for the key.
C19_NoLostIncrement ==
    \A key \in DOMAIN authLog :
        /\ key \in DOMAIN rateLimitStore
        /\ rateLimitStore[key].count = Len(authLog[key].calls)

\* No 4 createPoll calls of a user pass in less than 60 s.
C19_AtMostThreePass ==
    \A u \in DOMAIN passLog :
        \A i \in 1..Len(passLog[u]) :
            i + 3 <= Len(passLog[u]) =>
                passLog[u][i + 3] - passLog[u][i] >= 60 * 1000

\* An invocation that has read the entry of its key writes it in the next
\* step: nothing else happens in between.
C19_Uninterrupted ==
    (\E inv \in BagToSet(inflight) : inv.pc = "write") =>
        (\A inv \in BagToSet(inflight') : inv.pc # "write")

\* C19: with several login, register or createPoll invocations in flight at
\* once and interleaved at their awaits, no read-modify-write of a limiter
\* is interrupted by another invocation, no increment is lost (the count
\* recorded for a key is the number of calls on it in the window), and no
\* more than 3 createPoll calls of a user pass inside one window.
C19_AtomicPerKey ==
    /\ [](C19_NoLostIncrement /\ C19_AtMostThreePass)
    /\ [][C19_Uninterrupted]_vars

\* Two invocations on one key are suspended at an await at once, and both
\* are counted.
C19_Witness ==
    \E inv1, inv2 \in BagToSet(inflight) :
        /\ inv1 # inv2 \/ CopiesIn(inv1, inflight) >= 2
        /\ inv1.op \in AuthActions
        /\ inv2.op = inv1.op
        /\ inv2.ip = inv1.ip
        /\ inv1.pc \in AwaitPoints
        /\ inv2.pc \in AwaitPoints
        /\ rateLimitStore[RateLimitKey(inv1.ip, inv1.op)].count = 2

\* The count a key has in the window open at the time of a call, before the
\* call.
CountBefore(key) ==
    IF key \in DOMAIN rateLimitStore /\ now - rateLimitStore[key].last <= 60 * 1000
    THEN rateLimitStore[key].count
    ELSE 0

\* The timestamps a user has in the last 60 s at the time of a call, before
\* the call.
RecentBefore(user) ==
    IF user \in DOMAIN pollRateLimitMap
    THEN SelectSeq(pollRateLimitMap[user], LAMBDA ts : now - ts < 60 * 1000)
    ELSE <<>>

\* A call of login or register is denied exactly when the count of its key
\* with the call is over 5; a call of createPoll that comes to the limiter
\* is denied exactly when the timestamps of its user with the call would be
\* over 3.
C20_DeniedOverMax ==
    /\ ret'.op \in {"login", "register"} =>
          (ret'.error = ErrRateLimit <=>
              CountBefore(RateLimitKey(ret'.ip, ret'.op)) + 1 > 5)
    /\ (ret'.op = "createPollRateLimited" /\ ret'.actor \in Users
           /\ ret'.error # ErrPollInput) =>
          (ret'.error = ErrPollRate <=> Len(RecentBefore(ret'.actor)) + 1 > 3)

\* A call that is denied is recorded in the table of its limiter.
C20_DeniedRecorded ==
    /\ (ret'.op \in {"login", "register"} /\ ret'.error = ErrRateLimit) =>
          rateLimitStore'[RateLimitKey(ret'.ip, ret'.op)].count =
              CountBefore(RateLimitKey(ret'.ip, ret'.op)) + 1
    /\ (ret'.op = "createPollRateLimited" /\ ret'.error = ErrPollRate) =>
          /\ ret'.actor \in DOMAIN pollRateLimitMap'
          /\ pollRateLimitMap'[ret'.actor] = Append(RecentBefore(ret'.actor), now)

\* C20 as stated: in login, register and createPoll, a call is denied exactly
\* when the count with that call is over the maximum, and the denied call is
\* recorded in the rate-limit table.
C20_DeniedAndRecorded == [][C20_DeniedOverMax /\ C20_DeniedRecorded]_vars

\* Every call of login or register is counted on its key, the denied ones
\* too; a call of createPoll is recorded when it passes the limiter, and a
\* denied one leaves the table as it was.
C20_Recorded ==
    /\ ret'.op \in {"login", "register"} =>
          rateLimitStore'[RateLimitKey(ret'.ip, ret'.op)].count =
              CountBefore(RateLimitKey(ret'.ip, ret'.op)) + 1
    /\ (ret'.op = "createPollRateLimited" /\ ret'.error = ErrPollRate) =>
          pollRateLimitMap' = pollRateLimitMap
    /\ (ret'.op = "createPollRateLimited" /\ ret'.sent) =>
          /\ ret'.actor \in DOMAIN pollRateLimitMap'
          /\ pollRateLimitMap'[ret'.actor] = Append(RecentBefore(ret'.actor), now)

\* C20, amended: a call of login or register is denied exactly when the
\* count after recording it is over 5, and the denied call is counted; a
\* call of createPoll is denied exactly when the user has 3 timestamps in
\* the last 60 s already, and the denied call is not recorded.
C20_DeniedOverMaxRecordedByCheckRateLimit ==
    [][C20_DeniedOverMax /\ C20_Recorded]_vars

\* createPoll was denied by the limiter, and the table has the 3 timestamps
\* of the calls that passed and none of the denied call.
C20_Witness ==
    /\ ret.op = "createPollRateLimited"
    /\ ret.error = ErrPollRate
    /\ Len(pollRateLimitMap[ret.actor]) = 3

\* A call of login on a key that has an entry: made at most 60 s after the
\* window start it adds one to the count and leaves the window start as it
\* is; made later it sets the count to 1 and the window start to now, and is
\* allowed.  A call on a key with no entry opens a window at now.
C21_WindowStep ==
    ret'.op = "login" =>
        LET key == RateLimitKey(ret'.ip, "login")
        IN  /\ key \in DOMAIN rateLimitStore'
            /\ IF key \notin DOMAIN rateLimitStore
               THEN rateLimitStore'[key] = [count |-> 1, last |-> now]
               ELSE IF now - rateLimitStore[key].last <= 60 * 1000
               THEN rateLimitStore'[key] =
                        [count |-> rateLimitStore[key].count + 1,
                         last |-> rateLimitStore[key].last]
               ELSE /\ rateLimitStore'[key] = [count |-> 1, last |-> now]
                    /\ ret'.error # ErrRateLimit

\* C21: for checkRateLimit the window start of a key changes only when the
\* window rolls over: a call at most 60 s after the window start increments
\* the count and keeps the window start, and the first call more than 60 s
\* after it sets the count to 1 and the window start to now and is allowed,
\* however many calls were denied before.
C21_WindowRollsOver == [][C21_WindowStep]_vars

\* A call on a key whose window had taken denied calls came more than 60 s
\* after the window start: it was allowed and opened a window at now.
C21_Witness ==
    /\ ret.op = "login"
    /\ ret.error # ErrRateLimit
    /\ LET key == RateLimitKey(ret.ip, "login")
       IN  /\ authLog[key].prev >= 6
           /\ rateLimitStore[key] = [count |-> 1, last |-> now]
           /\ now > 60 * 1000

\* A call of createPoll with the limiter returns the error of the first step
\* that fails, the steps being: the form is validated, the user is looked
\* for, the limiter is asked, the row is inserted.
C22_FirstFailure ==
    ret'.op = "createPollRateLimited" =>
        ret'.error \in
            IF PollInputInvalid(FormQuestion(ret'.form), FormOptions(ret'.form))
            THEN {ErrPollInput}
            ELSE IF ret'.actor \notin Users
            THEN {ErrUser, ErrLoginCreate}
            ELSE IF Cardinality(RecentPasses(ret'.actor)) >= 3
            THEN {ErrPollRate}
            ELSE {ErrDb, null}

\* A call that stops leaves alone what the later steps write: rejected for
\* its form or for a missing user it leaves the table of the limiter as it
\* is; not passed by the limiter it sends no insert and adds no row; passed
\* by the limiter it is recorded there before the insert; and the listing is
\* invalidated only when the row has been inserted.
C22_LaterStepsNotDone ==
    ret'.op = "createPollRateLimited" =>
        /\ ret'.error \in {ErrPollInput, ErrUser, ErrLoginCreate} =>
              pollRateLimitMap' = pollRateLimitMap
        /\ ret'.error \in {ErrPollInput, ErrUser, ErrLoginCreate, ErrPollRate} =>
              (polls' = polls /\ ~ret'.sent /\ ~ret'.revalidated)
        /\ ret'.error \in {ErrDb, null} =>
              /\ ret'.sent
              /\ ret'.actor \in DOMAIN pollRateLimitMap'
              /\ pollRateLimitMap'[ret'.actor] # <<>>
              /\ pollRateLimitMap'[ret'.actor][Len(pollRateLimitMap'[ret'.actor])] = now
        /\ ret'.revalidated =>
              /\ ret'.error = null
              /\ \E row \in polls' \ polls : row.user_id = ret'.actor
        /\ ret'.error = ErrDb => (polls' = polls /\ ~ret'.revalidated)

\* C22: createPoll with the limiter validates the form, resolves the user,
\* asks the limiter, inserts and invalidates the listing, in this order, and
\* stops at the first step that fails: a call rejected for its form or for a
\* missing user leaves the rate-limit table unchanged, a rate-limited call
\* inserts nothing, and the listing is invalidated only after the insert
\* succeeded.
C22_StepsInOrder == [][C22_FirstFailure /\ C22_LaterStepsNotDone]_vars

\* A call with no session and an invalid form, made while a user has entries
\* in the table of the limiter, was rejected for its form.
C22_Witness ==
    /\ ret.op = "createPollRateLimited"
    /\ ret.actor = NoUser
    /\ ret.error = ErrPollInput
    /\ pollRateLimitMap # <<>>

\* Every stored poll is owned by a user, and no two rows have the same id.
C23_OwnedByUser ==
    \A row \in polls :
        /\ row.user_id \in Users
        /\ \A other \in polls : other.id = row.id => other = row

\* A poll that is there before and after a step has the same owner, and a
\* poll that is new was inserted by createPoll for the user who called it.
C23_OwnerKept ==
    \A new \in polls' :
        IF \E old \in polls : old.id = new.id
        THEN \A old \in polls : old.id = new.id => new.user_id = old.user_id
        ELSE /\ ret'.op = "createPoll"
             /\ ret'.actor \in Users
             /\ new.user_id = ret'.actor

\* C23: the owner of a poll is the authenticated user who created it and
\* never changes: createPoll stores the id of the resolved user as owner, and
\* no updatePoll, deletePoll or submitVote call by anyone changes the owner
\* of an existing poll.
C23_OwnerNeverChanges == []C23_OwnedByUser /\ [][C23_OwnerKept]_vars

\* updatePoll was called with a valid form by a user on the poll of another
\* user and returned no error; the poll is there.
C23_Witness ==
    /\ ret.op = "updatePoll"
    /\ ret.actor \in Users
    /\ ret.error = null
    /\ \E row \in polls : row.id = ret.id /\ row.user_id \in Users \ {ret.actor}

\* C24: in the voting component hasVoted becomes true only in the step in
\* which a vote_on_option call, made by a run whose user lookup returned a
\* user and whose selection is an option, returns without error; a run whose
\* user lookup fails, throws or returns no user, or whose selection is no
\* option, issues no vote call, sets an error message and leaves hasVoted
\* false; and hasVoted, once true, stays true.
C24_VotedStep ==
    (~voteState.hasVoted /\ voteState'.hasVoted) =>
        \E i \in DOMAIN voteCalls :
            /\ voteCalls[i].call = "pending"
            /\ voteCalls'[i].call = "ok"
            /\ voteCalls[i].user = "user"
            /\ ~Falsy(voteCalls[i].option)

C24_NoCallStep ==
    (/\ ret'.op = "handleVote"
     /\ ret'.step = "getUser"
     /\ (ret'.answer # "user" \/ Falsy(ret'.option))) =>
        /\ DOMAIN voteCalls' = DOMAIN voteCalls
        /\ \A i \in DOMAIN voteCalls : voteCalls'[i].call = voteCalls[i].call
        /\ voteState'.error # null
        /\ ~voteState'.hasVoted

C24_StaysVoted == voteState.hasVoted => voteState'.hasVoted

C24_VotedOnlyAfterVote ==
    [][C24_VotedStep /\ C24_NoCallStep /\ C24_StaysVoted]_vars

\* A run that found no user issued no call, and a later run cast the vote.
C24_Witness ==
    /\ voteState.hasVoted
    /\ \E i, j \in DOMAIN voteCalls :
        /\ voteCalls[i].user \in {"none", "error", "throw"}
        /\ voteCalls[i].call = "none"
        /\ voteCalls[j].user = "user"
        /\ voteCalls[j].call = "ok"

\* C25: every run of handleVote ends, with isSubmitting false when it has
\* ended, whichever way it ends (no user, no selection, an error of the vote
\* call, a throw, success); isSubmitting is true exactly while a run is in
\* flight, and while it is true no run is started and no second vote call is
\* issued: a component never has two runs or two vote calls in flight.
C25_PendingCalls == {i \in DOMAIN voteCalls : voteCalls[i].call = "pending"}

C25_OneInFlight ==
    /\ BagCardinality(voteRuns) <= 1
    /\ Cardinality(C25_PendingCalls) <= 1
    /\ voteState.isSubmitting <=> voteRuns # EmptyBag

C25_NoSecondRun ==
    voteState.isSubmitting =>
        /\ Len(voteCalls') = Len(voteCalls)
        /\ C25_PendingCalls # {} =>
            \A i \in DOMAIN voteCalls :
                voteCalls'[i].call = "pending" => voteCalls[i].call = "pending"

C25_RunEnds ==
    (\/ BagCardinality(voteRuns') < BagCardinality(voteRuns)
     \/ (Len(voteCalls') > Len(voteCalls) /\ voteRuns' = voteRuns)) =>
        ~voteState'.isSubmitting

C25_SubmittingEnds ==
    /\ []C25_OneInFlight
    /\ [][C25_NoSecondRun /\ C25_RunEnds]_vars
    /\ (voteRuns # EmptyBag) ~> (voteRuns = EmptyBag /\ ~voteState.isSubmitting)

\* A run ended by an error or a throw of the vote call, a later one by
\* success, and nothing is being submitted.
C25_Witness ==
    /\ ~voteState.isSubmitting
    /\ voteRuns = EmptyBag
    /\ \E i, j \in DOMAIN voteCalls :
        /\ voteCalls[i].call \in {"error", "throw"}
        /\ voteCalls[j].call = "ok"

====
